---- MODULE Spec2Model ----
(***************************************************************************)
(* A model of package httpclient (src/httpclient/httpclient.go): a Client  *)
(* holding a transport, a base URL and an ordered middleware list, its     *)
(* dispatch pipeline Do, the verb helpers, Path/Pathf and DecodeJSON.      *)
(*                                                                         *)
(* Strings that the code takes apart (base URL, paths, format templates)   *)
(* are sequences of one-character strings.                                 *)
(***************************************************************************)
EXTENDS Integers, Sequences, FiniteSets, TLC

VARIABLES
    mw,          \* Client.mw: the client-level middleware list
    baseURL,     \* Client.baseURL
    proc,        \* per goroutine: the call it is executing and where it is in it
    registered,  \* history: the arguments of all Use calls so far, concatenated in call order
    pathIn,      \* the arguments of the last Path/Pathf call
    pathOut,     \* the string the last Path/Pathf call returned
    decIn,       \* the response body handed to the last DecodeJSON call
    decOut       \* what the last DecodeJSON call returned

vars == <<mw, baseURL, proc, registered, pathIn, pathOut, decIn, decOut>>

-----------------------------------------------------------------------------
(* Bounds *)

MaxMw == 2          \* longest client-level middleware list
MaxCallMw == 2      \* longest call-scoped middleware list
MaxConcMw == 2      \* longest argument list of a call made among other goroutines
MaxTrail == 2       \* most trailing slashes on a base URL
MaxPathTokens == 3  \* most tokens a relative path is built from
MaxFields == 2      \* most members in a JSON object body
MaxOperands == 1    \* most operands handed to Pathf

Procs == {"g1", "g2"}        \* goroutines sharing the client
MwFuncs == {"f1", "f2"}      \* middleware function values
Nil == "nil"
Garbage == "garbage"         \* a slice element read outside the backing array
Transport == "transport"     \* c.client, the *http.Client

-----------------------------------------------------------------------------
(* Sequences *)

IsPrefix(s, t) == Len(s) <= Len(t) /\ SubSeq(t, 1, Len(s)) = s

SeqsUpTo(S, n) == UNION {[1..k -> S] : k \in 0..n}

RECURSIVE Flatten(_)
Flatten(ss) == IF ss = <<>> THEN <<>> ELSE Head(ss) \o Flatten(Tail(ss))

-----------------------------------------------------------------------------
(* Values: requests, errors, responses *)

NoReq == [method |-> Nil, url |-> Nil, ctx |-> Nil, body |-> Nil, hdr |-> <<>>]
NoErr == [kind |-> Nil, by |-> Nil, at |-> 0]
NoResp == [status |-> 0, of |-> NoReq]
NoRet == [resp |-> NoResp, err |-> NoErr]

GoodURL == "http://base/a"
MalformedURLs == {"http://base/%zz"}      \* url.Parse rejects these
URLs == {GoodURL} \cup MalformedURLs
Background == "background"                \* context.Background()
Contexts == {"ctx", Nil}                  \* what a caller may pass as ctx
Payload == "payload"

Helpers == {"Get", "GetCtx", "Post", "PostCtx", "Put", "PutCtx", "Delete", "DeleteCtx"}
DoOps == Helpers \cup {"Do"}

MethodOf(h) ==
    CASE h \in {"Get", "GetCtx"} -> "GET"
      [] h \in {"Post", "PostCtx"} -> "POST"
      [] h \in {"Put", "PutCtx"} -> "PUT"
      [] h \in {"Delete", "DeleteCtx"} -> "DELETE"

TakesCtx(h) == h \in {"GetCtx", "PostCtx", "PutCtx", "DeleteCtx"}
TakesPayload(h) == h \in {"Post", "PostCtx", "Put", "PutCtx"}

\* http.NewRequestWithContext as the helpers use it (http.NewRequest passes
\* context.Background()): the method is one of the http.Method* constants, so
\* what can fail is a nil context, then the parse of the URL.
NewRequestWithContext(ctx, method, url, body) ==
    IF ctx = Nil
    THEN [req |-> NoReq, err |-> [kind |-> "nilContext", by |-> "NewRequest", at |-> 0]]
    ELSE IF url \in MalformedURLs
    THEN [req |-> NoReq, err |-> [kind |-> "parse", by |-> url, at |-> 0]]
    ELSE [req |-> [method |-> method, url |-> url, ctx |-> ctx, body |-> body, hdr |-> <<>>],
          err |-> NoErr]

\* Requests a caller may hand to Do directly.
CallerRequests == {[method |-> "PATCH", url |-> GoodURL, ctx |-> Background,
                    body |-> Nil, hdr |-> <<>>]}

\* What a middleware does to a request is its own business; here it marks the
\* request, so that the request each stage receives shows which stages ran on it.
Stamp(r, f) == [r EXCEPT !.hdr = Append(@, f)]

\* The results one invocation of middleware f on request r (the k-th call of
\* the dispatch) can produce: a new request, or an error.
MwOutcomes(f, r, k) ==
    LET e == [kind |-> "mw", by |-> f, at |-> k]
    IN  {[req |-> Stamp(r, f), err |-> NoErr],
         [req |-> NoReq, err |-> e]}

\* (*http.Client).Do: a response, an error, or (a failed redirect check) both.
TransportOutcomes(r) ==
    {[resp |-> [status |-> 200, of |-> r], err |-> NoErr],
     [resp |-> NoResp, err |-> [kind |-> "transport", by |-> Transport, at |-> 0]],
     [resp |-> [status |-> 302, of |-> r], err |-> [kind |-> "redirect", by |-> Transport, at |-> 0]]}

-----------------------------------------------------------------------------
(* Goroutines *)

IdleProc ==
    [pc |-> "idle",      \* idle, call, send, done, storing, crashed
     op |-> "none",      \* the operation being executed or last executed
     url |-> Nil,        \* a verb helper's url argument
     ctx |-> Nil,        \* a verb helper's ctx argument
     req0 |-> NoReq,     \* the request Do was called with
     rmw |-> <<>>,       \* Do's rmw argument
     snap |-> <<>>,      \* the value of c.mw the range statement evaluated
     k |-> 0,            \* how many middleware of the two loops have returned nil errors
     req |-> NoReq,      \* Do's req variable
     log |-> <<>>,       \* the calls Do has made: callee, argument, results
     ret |-> NoRet,      \* what the operation returned
     stable |-> TRUE,    \* no Use overlapped this operation
     pending |-> <<>>]   \* Use: the slice append returned, being stored into c.mw

Ready(g) == proc[g].pc = "idle"
Storing == {h \in Procs : proc[h].pc = "storing"}

\* A slice header read while another goroutine stores a new one: the old
\* header, the new one, or a mix of the two (old pointer with new length, new
\* pointer with old length) whose elements past the shorter slice are not
\* elements of the list at all.
Torn(old, new, n) == [j \in 1..n |-> IF j <= Len(old) THEN old[j] ELSE Garbage]

Observable ==
    {mw} \cup UNION {{proc[h].pending,
                      Torn(mw, proc[h].pending, Len(proc[h].pending)),
                      Torn(proc[h].pending, mw, Len(mw))} : h \in Storing}

\* Use: append(c.mw, mws...)
AppendMwFront(list, mws) == mws \o list
AppendMw(list, mws) == list \o mws

\* The callee of Do's (k+1)-th call: the loop over c.mw, then the loop over
\* rmw, then c.client.Do.
CalleeCallScopedFirst(s, n, k) ==
    IF k < Len(n) THEN n[k + 1]
    ELSE IF k < Len(n) + Len(s) THEN s[k - Len(n) + 1]
    ELSE Transport
Callee(s, n, k) ==
    IF k < Len(s) THEN s[k + 1]
    ELSE IF k < Len(s) + Len(n) THEN n[k - Len(s) + 1]
    ELSE Transport

PcAt(s, n, k) == IF k < Len(s) + Len(n) THEN "call" ELSE "send"

\* Do's entry: req and rmw are the arguments, obs what `range c.mw` read.
EnterDo(p, r, n, obs) ==
    [p EXCEPT !.req0 = r, !.req = r, !.rmw = n, !.snap = obs, !.k = 0,
              !.pc = PcAt(obs, n, 0)]

\* A verb helper after http.NewRequest[WithContext] returned `built`.
AfterNewRequestUnchecked(p, built, n, obs) == EnterDo(p, built.req, n, obs)
AfterNewRequest(p, built, n, obs) ==
    IF built.err # NoErr
    THEN [p EXCEPT !.pc = "done", !.ret = [resp |-> NoResp, err |-> built.err]]
    ELSE EnterDo(p, built.req, n, obs)

LogEntry(f, arg, out) ==
    [callee |-> f, arg |-> arg, req |-> out.req, resp |-> out.resp, err |-> out.err]

\* One iteration of either loop, after the middleware returned `out`:
\* req, err = mw(req); if err != nil { return nil, err }
AfterMwNoAbort(p, out) ==
    [p EXCEPT !.req = out.req, !.k = @ + 1, !.pc = PcAt(p.snap, p.rmw, p.k + 1)]
AfterMwKeepReq(p, out) ==
    IF out.err # NoErr
    THEN [p EXCEPT !.pc = "done", !.ret = [resp |-> NoResp, err |-> out.err]]
    ELSE [p EXCEPT !.k = @ + 1, !.pc = PcAt(p.snap, p.rmw, p.k + 1)]
AfterMw(p, out) ==
    IF out.err # NoErr
    THEN [p EXCEPT !.req = out.req, !.pc = "done",
                   !.ret = [resp |-> NoResp, err |-> out.err]]
    ELSE [p EXCEPT !.req = out.req, !.k = @ + 1, !.pc = PcAt(p.snap, p.rmw, p.k + 1)]

\* return c.client.Do(req)
AfterSend(p, out) == [p EXCEPT !.pc = "done", !.ret = [resp |-> out.resp, err |-> out.err]]

-----------------------------------------------------------------------------
(* Strings: package strings, path and fmt as Path and Pathf use them *)

Str_http == <<"h", "t", "t", "p">>

\* strings.HasPrefix
HasPrefix(s, prefix) == Len(s) >= Len(prefix) /\ SubSeq(s, 1, Len(prefix)) = prefix

\* strings.TrimRight(s, "/")
RECURSIVE TrimRight(_, _)
TrimSuffixOnce(s, c) == IF s # <<>> /\ s[Len(s)] = c THEN SubSeq(s, 1, Len(s) - 1) ELSE s
TrimRight(s, c) ==
    IF s # <<>> /\ s[Len(s)] = c THEN TrimRight(SubSeq(s, 1, Len(s) - 1), c) ELSE s

\* strings.TrimLeft(s, "/")
RECURSIVE TrimLeft(_, _)
TrimLeft(s, c) == IF s # <<>> /\ Head(s) = c THEN TrimLeft(Tail(s), c) ELSE s

\* The elements of a path between its slashes (empty ones included).
RECURSIVE SplitFrom(_, _, _)
SplitFrom(s, j, cur) ==
    IF j > Len(s) THEN <<cur>>
    ELSE IF s[j] = "/" THEN <<cur>> \o SplitFrom(s, j + 1, <<>>)
    ELSE SplitFrom(s, j + 1, Append(cur, s[j]))
Split(s) == SplitFrom(s, 1, <<>>)

RECURSIVE JoinElems(_)
JoinElems(es) ==
    IF es = <<>> THEN <<>>
    ELSE IF Len(es) = 1 THEN es[1]
    ELSE es[1] \o <<"/">> \o JoinElems(Tail(es))

\* path.Clean's pass over the elements: an empty element and "." are dropped,
\* ".." removes the element before it, or stays when there is none to remove
\* and the path is not rooted (the first `kept` elements of out are such "..").
RECURSIVE CleanElems(_, _, _, _)
CleanElems(es, out, kept, rooted) ==
    IF es = <<>> THEN out
    ELSE LET e == Head(es)
             rest == Tail(es)
         IN  IF e = <<>> \/ e = <<".">> THEN CleanElems(rest, out, kept, rooted)
             ELSE IF e = <<".", ".">>
             THEN IF Len(out) > kept
                  THEN CleanElems(rest, SubSeq(out, 1, Len(out) - 1), kept, rooted)
                  ELSE IF ~rooted
                  THEN CleanElems(rest, Append(out, e), kept + 1, rooted)
                  ELSE CleanElems(rest, out, kept, rooted)
             ELSE CleanElems(rest, Append(out, e), kept, rooted)

\* path.Clean
Clean(s) ==
    IF s = <<>> THEN <<".">>
    ELSE LET rooted == s[1] = "/"
             body == JoinElems(CleanElems(Split(s), <<>>, 0, rooted))
             out == IF rooted THEN <<"/">> \o body ELSE body
         IN  IF out = <<>> THEN <<".">> ELSE out

\* path.Join(a, b): the non-empty elements joined by slashes, then cleaned.
Join(a, b) ==
    IF a = <<>> /\ b = <<>> THEN <<>>
    ELSE IF a = <<>> THEN Clean(b)
    ELSE Clean(a \o <<"/">> \o b)

\* Values handed to fmt.Sprintf: [t |-> "int", v |-> 42], [t |-> "string", v |-> <<"a">>]
DigitChar == <<"0", "1", "2", "3", "4", "5", "6", "7", "8", "9">>

RECURSIVE Decimal(_)
Decimal(n) ==
    IF n < 0 THEN <<"-">> \o Decimal(-n)
    ELSE IF n < 10 THEN <<DigitChar[n + 1]>>
    ELSE Decimal(n \div 10) \o <<DigitChar[(n % 10) + 1]>>

TypeName(a) == IF a.t = "int" THEN <<"i", "n", "t">> ELSE <<"s", "t", "r", "i", "n", "g">>
Plain(a) == IF a.t = "int" THEN Decimal(a.v) ELSE a.v

\* One verb of the format applied to one operand.
FormatVerb(verb, a) ==
    IF verb = "v" \/ (verb = "d" /\ a.t = "int") \/ (verb = "s" /\ a.t = "string")
    THEN Plain(a)
    ELSE <<"%", "!", verb, "(">> \o TypeName(a) \o <<"=">> \o Plain(a) \o <<")">>

RECURSIVE Extra(_)
Extra(v) ==
    IF v = <<>> THEN <<>>
    ELSE TypeName(Head(v)) \o <<"=">> \o Plain(Head(v))
         \o (IF Len(v) > 1 THEN <<",", " ">> ELSE <<>>) \o Extra(Tail(v))

\* fmt.Sprintf for the verbs %d, %s, %v and %%
RECURSIVE SprintfFrom(_, _, _)
SprintfFrom(f, j, v) ==
    IF j > Len(f)
    THEN IF v = <<>> THEN <<>>
         ELSE <<"%", "!", "(", "E", "X", "T", "R", "A", " ">> \o Extra(v) \o <<")">>
    ELSE IF f[j] # "%" THEN <<f[j]>> \o SprintfFrom(f, j + 1, v)
    ELSE IF j = Len(f) THEN <<"%", "!", "(", "N", "O", "V", "E", "R", "B", ")">> \o SprintfFrom(f, j + 1, v)
    ELSE IF f[j + 1] = "%" THEN <<"%">> \o SprintfFrom(f, j + 2, v)
    ELSE IF v = <<>>
    THEN <<"%", "!", f[j + 1]>> \o <<"(", "M", "I", "S", "S", "I", "N", "G", ")">> \o SprintfFrom(f, j + 2, v)
    ELSE FormatVerb(f[j + 1], Head(v)) \o SprintfFrom(f, j + 2, Tail(v))
Sprintf(f, v) == SprintfFrom(f, 1, v)

\* (*Client).Path
PathOf(base, url) ==
    IF HasPrefix(url, Str_http) THEN url
    ELSE LET b == TrimRight(base, "/")
         IN  IF url = <<>> THEN b
             ELSE Join(b, TrimLeft(url, "/"))

\* (*Client).Pathf
PathfOf(base, url, v) == PathOf(base, Sprintf(url, v))

-----------------------------------------------------------------------------
(* DecodeJSON[T], for T = struct{ A int `json:"a"`; B int `json:"b"` } *)

ZeroT == [a |-> 0, b |-> 0]
NilErr == "nil"

\* A response body: a stream that is still unread, already read to its end,
\* or failing when read; its text is a JSON object given by its members in
\* order, which is complete or stops short of its closing brace.
JSONValues == {[t |-> "int", v |-> 1], [t |-> "int", v |-> 2], [t |-> "string", v |-> "s"]}
JSONMembers == [key : {"a", "b", "x"}, val : JSONValues]
JSONTexts == [members : SeqsUpTo(JSONMembers, MaxFields), complete : BOOLEAN]
Bodies == [stream : {"unread", "consumed", "failing"}, text : JSONTexts]

\* (*decodeState).object on one member: a member naming a field is stored into
\* it; a value of the wrong type stores nothing and its error is kept while
\* decoding goes on (the first such error is the one returned); a member that
\* names no field is skipped.
StoreMember(acc, m) ==
    IF m.key \notin {"a", "b"} THEN acc
    ELSE IF m.val.t = "int" THEN [acc EXCEPT !.val = [@ EXCEPT ![m.key] = m.val.v]]
    ELSE IF acc.err = NilErr THEN [acc EXCEPT !.err = "UnmarshalTypeError"]
    ELSE acc

RECURSIVE Unmarshal(_, _)
Unmarshal(members, acc) ==
    IF members = <<>> THEN acc ELSE Unmarshal(Tail(members), StoreMember(acc, Head(members)))

\* (*json.Decoder).Decode(&v): the whole value is read and scanned first, and
\* only a complete value is unmarshalled into v.
Decode(body, v) ==
    IF body.stream = "failing" THEN [val |-> v, err |-> "ReadError"]
    ELSE IF body.stream = "consumed" THEN [val |-> v, err |-> "EOF"]
    ELSE IF ~body.text.complete THEN [val |-> v, err |-> "UnexpectedEOF"]
    ELSE Unmarshal(body.text.members, [val |-> v, err |-> NilErr])

\* DecodeJSON: var zero T; if err := decoder.Decode(&zero); err != nil { return zero, err }; return zero, nil
DecodeJSON(body) ==
    LET d == Decode(body, ZeroT)
    IN  IF d.err # NilErr THEN [val |-> d.val, err |-> d.err] ELSE [val |-> d.val, err |-> NilErr]

-----------------------------------------------------------------------------
(* Operations of the client *)

pathVars == <<pathIn, pathOut>>
decVars == <<decIn, decOut>>

\* c.Do(req, rmw), called directly
DoCallRegistering(g, r, n) ==
    /\ Ready(g)
    /\ mw' = mw \o n
    /\ proc' = [proc EXCEPT ![g] =
                  EnterDo([IdleProc EXCEPT !.op = "Do", !.stable = (Storing = {})],
                          r, <<>>, mw \o n)]
    /\ UNCHANGED <<baseURL, registered, pathVars, decVars>>
DoCall(g, r, n) ==
    /\ Ready(g)
    /\ \E obs \in Observable :
         proc' = [proc EXCEPT ![g] =
                    EnterDo([IdleProc EXCEPT !.op = "Do", !.stable = (Storing = {})],
                            r, n, obs)]
    /\ UNCHANGED <<mw, baseURL, registered, pathVars, decVars>>

\* c.Get(url, mw...), c.GetCtx(ctx, url, mw...), c.Post(url, payload, mw...), ...
VerbCall(g, h, ctx, url, n) ==
    /\ Ready(g)
    /\ TakesCtx(h) \/ ctx = Background
    /\ LET built == NewRequestWithContext(ctx, MethodOf(h), url,
                                          IF TakesPayload(h) THEN Payload ELSE Nil)
           p0 == [IdleProc EXCEPT !.op = h, !.url = url, !.ctx = ctx, !.rmw = n,
                                  !.stable = (Storing = {})]
       IN  \E obs \in Observable :
             proc' = [proc EXCEPT ![g] = AfterNewRequest(p0, built, n, obs)]
    /\ UNCHANGED <<mw, baseURL, registered, pathVars, decVars>>

\* An iteration of Do's loop over c.mw or of its loop over rmw.
InvokeMw(g) ==
    /\ proc[g].pc = "call"
    /\ LET p == proc[g]
           f == Callee(p.snap, p.rmw, p.k)
       IN  IF f = Garbage
           THEN proc' = [proc EXCEPT ![g].pc = "crashed"]
           ELSE \E o \in MwOutcomes(f, p.req, p.k + 1) :
                  LET out == [req |-> o.req, resp |-> NoResp, err |-> o.err]
                  IN  proc' = [proc EXCEPT ![g] =
                                 AfterMw([p EXCEPT !.log = Append(@, LogEntry(f, p.req, out))],
                                         out)]
    /\ UNCHANGED <<mw, baseURL, registered, pathVars, decVars>>

\* Do's last statement: the request goes to the transport.
Send(g) ==
    /\ proc[g].pc = "send"
    /\ LET p == proc[g]
       IN  \E o \in TransportOutcomes(p.req) :
             LET out == [req |-> NoReq, resp |-> o.resp, err |-> o.err]
             IN  proc' = [proc EXCEPT ![g] =
                            AfterSend([p EXCEPT !.log = Append(@, LogEntry(Transport, p.req, out))],
                                      out)]
    /\ UNCHANGED <<mw, baseURL, registered, pathVars, decVars>>

\* Every other goroutine's operation now overlaps a Use.
Overlapped(g, pg) ==
    [h \in Procs |-> IF h = g THEN pg ELSE [proc[h] EXCEPT !.stable = FALSE]]

\* c.Use(mws...), run without another goroutine in between
Use(g, mws) ==
    /\ Ready(g)
    /\ Storing = {}
    /\ Len(registered) + Len(mws) <= MaxMw
    /\ mw' = AppendMw(mw, mws)
    /\ registered' = registered \o mws
    /\ proc' = Overlapped(g, [IdleProc EXCEPT !.pc = "done", !.op = "Use"])
    /\ UNCHANGED <<baseURL, pathVars, decVars>>

\* c.Use(mws...) among other goroutines: c.mw is read and the appended slice
\* computed, and then stored into c.mw, with no lock held.
UseBegin(g, mws) ==
    /\ Ready(g)
    /\ Len(registered) + Len(mws) <= MaxMw
    /\ \E obs \in Observable :
         /\ Len(obs) + Len(mws) <= MaxMw
         /\ proc' = Overlapped(g, [IdleProc EXCEPT !.pc = "storing", !.op = "Use",
                                                   !.stable = (Storing = {}),
                                                   !.pending = AppendMw(obs, mws)])
    /\ registered' = registered \o mws
    /\ UNCHANGED <<mw, baseURL, pathVars, decVars>>

UseStore(g) ==
    /\ proc[g].pc = "storing"
    /\ mw' = proc[g].pending
    /\ proc' = [proc EXCEPT ![g].pc = "done", ![g].pending = <<>>]
    /\ UNCHANGED <<baseURL, registered, pathVars, decVars>>

\* c.Path(url)
PathCall(g, url) ==
    /\ Ready(g)
    /\ pathIn' = [op |-> "Path", url |-> url, v |-> <<>>]
    /\ pathOut' = PathOf(baseURL, url)
    /\ UNCHANGED <<mw, baseURL, proc, registered, decVars>>

\* c.Pathf(url, v...)
PathfCall(g, url, v) ==
    /\ Ready(g)
    /\ pathIn' = [op |-> "Pathf", url |-> url, v |-> v]
    /\ pathOut' = PathfOf(baseURL, url, v)
    /\ UNCHANGED <<mw, baseURL, proc, registered, decVars>>

\* DecodeJSON[T](r): the body is read; a stream read once is at its end.
DecodeJSONCall ==
    /\ decIn.stream # "closed"
    /\ decOut' = [of |-> decIn, called |-> TRUE] @@ DecodeJSON(decIn)
    /\ decIn' = [decIn EXCEPT !.stream = IF @ = "unread" THEN "consumed" ELSE @]
    /\ UNCHANGED <<mw, baseURL, proc, registered, pathVars>>

\* The operation returns proc[g].ret to its caller, which goes on.
Return(g) ==
    /\ proc[g].pc = "done"
    /\ proc' = [proc EXCEPT ![g] = IdleProc]
    /\ UNCHANGED <<mw, baseURL, registered, pathVars, decVars>>

-----------------------------------------------------------------------------
(* Specifications *)

CallLists == SeqsUpTo(MwFuncs, MaxCallMw)
UseLists == SeqsUpTo(MwFuncs, MaxMw)
\* Among several goroutines f1 is what gets registered and f2 what a call brings.
ConcUseLists == SeqsUpTo({"f1"}, MaxConcMw)
ConcCallLists == SeqsUpTo({"f2"}, MaxConcMw)

\* New(client, base)
New(base) ==
    /\ mw = <<>>
    /\ baseURL = base
    /\ proc = [g \in Procs |-> IdleProc]
    /\ registered = <<>>

NoPath == [op |-> "none", url |-> <<>>, v |-> <<>>]
NoBody == [stream |-> "closed", text |-> [members |-> <<>>, complete |-> TRUE]]
NoDecode == [of |-> NoBody, called |-> FALSE, val |-> ZeroT, err |-> NilErr]

PathIdle == pathIn = NoPath /\ pathOut = <<>>
DecodeIdle == decIn = NoBody /\ decOut = NoDecode

Str_base == <<"h", "t", "t", "p", ":", "/", "/", "b", "a", "s", "e">>

Init ==
    /\ New(Str_base)
    /\ PathIdle
    /\ DecodeIdle

Main == "g1"
ClientPaths == {<<"/", "a">>}

\* One goroutine uses the client.
Next ==
    \/ \E r \in CallerRequests, n \in CallLists : DoCall(Main, r, n)
    \/ \E h \in Helpers, ctx \in Contexts \cup {Background}, u \in URLs, n \in CallLists :
         VerbCall(Main, h, ctx, u, n)
    \/ InvokeMw(Main)
    \/ Send(Main)
    \/ Return(Main)
    \/ \E mws \in UseLists : Use(Main, mws)
    \/ \E url \in ClientPaths : PathCall(Main, url)
    \/ \E t \in ClientPaths : PathfCall(Main, t, <<>>)

Spec == Init /\ [][Next]_vars

\* Several goroutines share the client, none of them synchronised.
NextConc ==
    \E g \in Procs :
        \/ \E r \in CallerRequests, n \in ConcCallLists : DoCall(g, r, n)
        \/ InvokeMw(g)
        \/ Send(g)
        \/ Return(g)
        \/ \E mws \in ConcUseLists : UseBegin(g, mws)
        \/ UseStore(g)

SpecConc == Init /\ [][NextConc]_vars

\* Path and Pathf over base URLs and paths.
BaseStems == {Str_base, Str_base \o <<"/", "a", "p", "i">>, <<"h", "t", "t", "p", "s", ":", "/", "/", "h">>}
Slashes(n) == [j \in 1..n |-> "/"]
Bases == {stem \o Slashes(n) : stem \in BaseStems, n \in 0..MaxTrail}

Str_slash_a_b == <<"/", "a", "/", "b">>
Str_http_x_y == <<"h", "t", "t", "p", ":", "/", "/", "x", "/", "y">>
Str_users_d == <<"/", "u", "s", "e", "r", "s", "/", "%", "d">>
PathTokens == {<<"/">>, <<"a">>, <<".">>, <<".", ".">>, Str_http, <<"s", ":">>}
Paths == {Flatten(ts) : ts \in SeqsUpTo(PathTokens, MaxPathTokens)}
           \cup {Str_slash_a_b, Str_http_x_y}

Templates == {Str_users_d, <<"%", "s">>, <<"/", "u", "/", "%", "s">>, <<"%", "v", "/">>, <<"a", "%", "%">>, <<"h", "t", "t", "p", "%", "s">>}
Operands == {[t |-> "int", v |-> 42], [t |-> "string", v |-> <<"x">>],
             [t |-> "string", v |-> <<"/">>], [t |-> "string", v |-> <<>>]}
OperandLists == SeqsUpTo(Operands, MaxOperands)

InitPath ==
    /\ \E base \in Bases : New(base)
    /\ PathIdle
    /\ DecodeIdle

NextPath ==
    \/ \E url \in Paths : pathIn = NoPath /\ PathCall(Main, url)
    \/ \E t \in Templates, v \in OperandLists : pathIn = NoPath /\ PathfCall(Main, t, v)

SpecPath == InitPath /\ [][NextPath]_vars

\* DecodeJSON over response bodies.
InitDecode ==
    /\ New(Str_base)
    /\ PathIdle
    /\ decIn \in Bodies
    /\ decOut = NoDecode

NextDecode == DecodeJSONCall

SpecDecode == InitDecode /\ [][NextDecode]_vars

-----------------------------------------------------------------------------
(* The dispatch pipeline *)

Callees(log) == [j \in 1..Len(log) |-> log[j].callee]
MwEntries(log) == {j \in 1..Len(log) : log[j].callee # Transport}
NoMwFailed(log) == \A j \in MwEntries(log) : log[j].err = NoErr
Dispatching(p) == p.op \in DoOps /\ p.req0 # NoReq
Pipeline(p) == mw \o p.rmw \o <<Transport>>

\* C1: a dispatch calls the client's middleware in registration order, then
\* the call's middleware in the order given, then the transport, each once:
\* what it has called so far is always an initial part of that sequence, and
\* all of it once the dispatch has returned without a middleware failing.
C1_ClientThenCallThenTransport ==
    \A g \in Procs :
        LET p == proc[g]
        IN  Dispatching(p) =>
              /\ IsPrefix(Callees(p.log), Pipeline(p))
              /\ (p.pc = "done" /\ NoMwFailed(p.log)) => Callees(p.log) = Pipeline(p)

C1_Witness ==
    LET p == proc[Main]
    IN  /\ p.op = "Do" /\ p.pc = "done"
        /\ mw = <<"f1", "f2">> /\ p.rmw = <<"f2", "f1">>
        /\ Callees(p.log) = <<"f1", "f2", "f2", "f1", Transport>>

\* C2: a middleware that returns an error is the last thing the dispatch
\* calls: the dispatch has returned, with no response and with that very error.
C2_ErrorAborts ==
    \A g \in Procs :
        LET p == proc[g]
        IN  Dispatching(p) =>
              \A j \in MwEntries(p.log) :
                  p.log[j].err # NoErr =>
                      /\ j = Len(p.log)
                      /\ p.pc = "done"
                      /\ p.ret = [resp |-> NoResp, err |-> p.log[j].err]

C2_Witness ==
    LET p == proc[Main]
    IN  /\ Dispatching(p) /\ p.pc = "done"
        /\ Len(mw) = 2 /\ Len(p.rmw) = 2
        /\ Len(p.log) = 2 /\ p.log[2].err # NoErr
        /\ p.ret.err = [kind |-> "mw", by |-> mw[2], at |-> 2]

\* C3: every call of the dispatch receives the request the call before it
\* returned, the first one the request Do was given; once all middleware have
\* succeeded the transport is called exactly once, and what it returns is what
\* Do returns.
C3_RequestChain ==
    \A g \in Procs :
        LET p == proc[g]
            sends == {j \in 1..Len(p.log) : p.log[j].callee = Transport}
        IN  Dispatching(p) =>
              /\ \A j \in 1..Len(p.log) :
                    p.log[j].arg = IF j = 1 THEN p.req0 ELSE p.log[j - 1].req
              /\ \A j \in sends : j = Len(p.log)
              /\ (p.pc = "done" /\ NoMwFailed(p.log)) =>
                    /\ Cardinality(sends) = 1
                    /\ p.ret = [resp |-> p.log[Len(p.log)].resp, err |-> p.log[Len(p.log)].err]

C3_Witness ==
    LET p == proc[Main]
    IN  /\ p.op = "Put" /\ p.pc = "done"
        /\ p.ret.err = NoErr /\ p.ret.resp.status = 200
        /\ p.ret.resp.of.hdr = <<"f1", "f2", "f1">>
        /\ p.req0.hdr = <<>>

\* C6: a verb helper whose request cannot be constructed (a URL that does not
\* parse, a nil context) returns the construction error and no response, and
\* has called no middleware and not the transport.
C6_ConstructionFailure ==
    \A g \in Procs :
        LET p == proc[g]
        IN  (p.op \in Helpers /\ (p.url \in MalformedURLs \/ p.ctx = Nil)) =>
              /\ p.log = <<>>
              /\ p.pc = "done"
              /\ p.ret.resp = NoResp
              /\ p.ret.err.kind \in {"parse", "nilContext"}

C6_Witness ==
    LET p == proc[Main]
    IN  /\ p.op = "PostCtx" /\ p.url \in MalformedURLs /\ p.ctx # Nil
        /\ Len(mw) = 2 /\ Len(p.rmw) = 2
        /\ p.pc = "done" /\ p.ret.err.kind = "parse"

\* C8: the middleware list is empty after New and is always the concatenation,
\* in call order, of the arguments of the Use calls made so far; a step changes
\* it only by extending it, and only a Use call does.
C8_AppendOnly ==
    /\ mw = <<>>
    /\ [](mw = registered)
    /\ [][IsPrefix(mw, mw') /\ (mw' # mw => \E g \in Procs : proc'[g].op = "Use")]_vars

C8_Witness ==
    /\ mw = <<"f2", "f1">>
    /\ proc[Main].op = "Put" /\ proc[Main].pc = "done"

\* C10: with several goroutines dispatching at once, a dispatch that no Use
\* call overlaps calls the whole client-level list and then its own list, as
\* C1 says of a single goroutine, and calls nothing that is no middleware
\* when the registrations themselves did not overlap.
C10_ConcurrentDispatch ==
    \A g \in Procs :
        LET p == proc[g]
        IN  (Dispatching(p) /\ p.stable) =>
              /\ IsPrefix(Callees(p.log), Pipeline(p))
              /\ (p.pc = "done" /\ NoMwFailed(p.log)) => Callees(p.log) = Pipeline(p)
              /\ (mw = registered) => p.pc # "crashed"

C10_Witness ==
    /\ Len(mw) = 2
    /\ \A g \in Procs : proc[g].op = "Do" /\ proc[g].stable /\ proc[g].pc = "call"
    /\ proc["g1"].k = 1 /\ proc["g2"].k = 2
    /\ proc["g1"].rmw # proc["g2"].rmw

\* The race C10 speaks of: a dispatch that read c.mw while a Use call was
\* storing into it, and got the list before the append (RaceSeesOld) or after
\* it (RaceSeesNew), or a slice that is neither (RaceSeesTorn).
RaceSeesOld ==
    \E g, h \in Procs :
        /\ proc[h].pc = "storing" /\ proc[g].pc \in {"call", "send"} /\ ~proc[g].stable
        /\ proc[g].snap = mw /\ proc[h].pending # mw
RaceSeesNew ==
    \E g, h \in Procs :
        /\ proc[h].pc = "storing" /\ proc[g].pc \in {"call", "send"} /\ ~proc[g].stable
        /\ proc[g].snap = proc[h].pending /\ proc[h].pending # mw
RaceSeesTorn ==
    \E g \in Procs : proc[g].pc = "crashed"

-----------------------------------------------------------------------------
(* Path, Pathf *)

\* The string Path receives.
PathArg == IF pathIn.op = "Pathf" THEN Sprintf(pathIn.url, pathIn.v) ELSE pathIn.url

TrailingSlashes(s) ==
    CHOOSE n \in 0..Len(s) :
        /\ \A j \in (Len(s) - n + 1)..Len(s) : s[j] = "/"
        /\ n = Len(s) \/ s[Len(s) - n] # "/"
LeadingSlashes(s) ==
    CHOOSE n \in 0..Len(s) :
        /\ \A j \in 1..n : s[j] = "/"
        /\ n = Len(s) \/ s[n + 1] # "/"
WithoutTrailing(s) == SubSeq(s, 1, Len(s) - TrailingSlashes(s))
WithoutLeading(s) == SubSeq(s, LeadingSlashes(s) + 1, Len(s))
Absolute(s) == Len(s) >= 4 /\ SubSeq(s, 1, 4) = Str_http

\* C4: for a path that is not absolute (and not empty), Path returns the base
\* without its trailing slashes, one slash, and the path without its leading
\* slashes.
C4_JoinedWithOneSlash ==
    (pathIn.op # "none" /\ ~Absolute(PathArg) /\ PathArg # <<>>) =>
        pathOut = WithoutTrailing(baseURL) \o <<"/">> \o WithoutLeading(PathArg)

\* C5: Path returns an absolute path unchanged, and for any other path a
\* string that starts with the base without its trailing slashes.
C5_AbsoluteOrUnderBase ==
    pathIn.op # "none" =>
        IF Absolute(PathArg) THEN pathOut = PathArg
        ELSE IsPrefix(WithoutTrailing(baseURL), pathOut)

\* C9: Path("") returns the base URL without its trailing slashes: what it
\* returns, followed by slashes only, is the base, and it ends in no slash.
C9_EmptyPathIsTrimmedBase ==
    (pathIn.op # "none" /\ PathArg = <<>>) =>
        /\ \E n \in 0..Len(baseURL) : baseURL = pathOut \o Slashes(n)
        /\ pathOut = <<>> \/ pathOut[Len(pathOut)] # "/"

C9_Witness ==
    /\ pathIn.op = "Path" /\ pathIn.url = <<>>
    /\ baseURL = Str_base \o <<"/", "/">>
    /\ pathOut = Str_base

-----------------------------------------------------------------------------
(* DecodeJSON *)

LastOf(members, key) ==
    LET at == {j \in 1..Len(members) : members[j].key = key}
    IN  IF at = {} THEN 0 ELSE members[CHOOSE j \in at : \A i \in at : i <= j].val.v

ValidFor(body) ==
    /\ body.stream = "unread"
    /\ body.text.complete
    /\ \A j \in 1..Len(body.text.members) :
          body.text.members[j].key \in {"a", "b"} => body.text.members[j].val.t = "int"

\* C7: DecodeJSON returns the decoded value and a nil error for a body that is
\* valid JSON for T, and the zero value of T whenever it returns an error.
C7_ZeroValueOnError ==
    decOut.called =>
        /\ ValidFor(decOut.of) =>
              /\ decOut.err = NilErr
              /\ decOut.val = [a |-> LastOf(decOut.of.text.members, "a"),
                               b |-> LastOf(decOut.of.text.members, "b")]
        /\ decOut.err # NilErr => decOut.val = ZeroT

====
